---- MODULE Spec2Model ----
(***************************************************************************)
(* Model of backend/main.py: the lazily loaded inference pipeline (the     *)
(* global pipe), the Configuration (model_config), the WebSocket           *)
(* connection registry (ConnectionManager.active_connections) and the      *)
(* request handlers that act on them.                                      *)
(*                                                                         *)
(* Scheduling.  handle_generate_image and websocket_endpoint are           *)
(* coroutines: they run on the single event loop, and one of them gives    *)
(* the loop to another only at an await that suspends.  The only such      *)
(* awaits in a generate request are the send_json calls inside             *)
(* ConnectionManager.broadcast; with no registered channel the whole       *)
(* request runs without a suspension.  The variable loop holds the         *)
(* coroutine that owns the event loop.  handle_set_settings is a plain     *)
(* def registered as a route (main.py:215, 308): the framework runs it on  *)
(* a worker thread, so its statements interleave with whatever the event   *)
(* loop is executing.                                                      *)
(***************************************************************************)
EXTENDS Integers, Sequences, FiniteSets, TLC

\* Bounds of the model.  Spec runs MaxGen generate requests, MaxSet settings
\* requests and MaxChan WebSocket channels; SpecHub, for the claims about the
\* connection registry, follows the broadcasts of one generate request over
\* HubChan channels; SpecPair, for the settings requests that overlap, runs
\* PairSet of them.
MaxGen == 2
MaxSet == 1
MaxChan == 1
HubChan == 2
PairSet == 2

Gens == 1..MaxGen
Sets == 1..(IF PairSet > MaxSet THEN PairSet ELSE MaxSet)
Chans == 1..(IF HubChan > MaxChan THEN HubChan ELSE MaxChan)
\* The request SpecHub follows.
HubGens == {1}

\* height / width values a request may carry (GenerateRequest, int fields):
\* a negative multiple of 16, zero, a non-multiple and a positive multiple.
Dims == {-16, 0, 15, 16}
\* The two of them Spec draws from.
PlainDims == {15, 16}
\* cache_dir values a settings request may carry (SettingsRequest, str field).
CacheDirs == {"", "cacheA"}

\* pipe = None
None == 0
\* loop when no coroutine owns the event loop
Free == {}

VARIABLES
    pipe,               \* global pipe: None or the index of a handle in handles
    model_config,       \* global model_config
    config_file,        \* the document at CONFIG_FILE
    active_connections, \* manager.active_connections (a list)
    ws,                 \* position of each websocket_endpoint coroutine
    modelDir,           \* the directory get_model_directory() names
    cuda,               \* torch.cuda.is_available()
    ZImagePipeline,     \* TRUE iff the import at main.py:16 succeeded
    boot,               \* the module body: "starting", "up" or "raised"
    handles,            \* every object from_pretrained has returned, in order
    loop,               \* the coroutine that owns the event loop: {r} or Free
    gpc,                \* position of each handle_generate_image coroutine
    req,                \* its GenerateRequest (height, width)
    bi,                 \* index of the list iterator of its running broadcast
    ret,                \* what get_pipeline returned to it
    status,             \* its HTTP status (0: no response yet)
    sent,               \* the notifications its load sequence has broadcast
    tried,              \* the channels its running broadcast has sent to
    failed,             \* those of them whose send_json raised
    startReg,           \* active_connections when its running broadcast began
    placing,            \* the placement call it is inside: object and mode
    failedAt,           \* the step of its load sequence that raised
    loadEpoch,          \* settings updates finished when its load began
    spc,                \* position of each handle_set_settings thread
    sreq,               \* its SettingsRequest
    sstatus,            \* its HTTP status (0: no response yet)
    saved               \* whether its save_config wrote the document

envVars == <<cuda, ZImagePipeline, boot>>
wsVars == <<active_connections, ws>>
genVars == <<gpc, req, bi, ret, status, sent, tried, failed, startReg, placing,
             failedAt, loadEpoch>>
setVars == <<spc, sreq, sstatus, saved>>
vars == <<pipe, model_config, config_file, modelDir, handles, loop,
          envVars, wsVars, genVars, setVars>>

----------------------------------------------------------------------------
\* Helpers

Range(s) == {s[i] : i \in 1..Len(s)}

\* list.remove(x): drops the first occurrence, raises ValueError if absent.
RECURSIVE RemoveFirst(_, _)
RemoveFirst(s, x) ==
    IF s = <<>> THEN <<>>
    ELSE IF Head(s) = x THEN Tail(s)
    ELSE <<Head(s)>> \o RemoveFirst(Tail(s), x)

\* list.remove(x) raises ValueError: x is not in the list.
RemoveRaises(s, x) == x \notin Range(s)

DefaultConfig == [cache_dir |-> "None", model_id |-> "Tongyi-MAI/Z-Image-Turbo",
                  cpu_offload |-> FALSE]

\* The keys of the Configuration, and a dict with none of them.
ConfigKeys == {"cache_dir", "model_id", "cpu_offload"}
EmptyDict == [k \in {} |-> FALSE]

\* The object documents CONFIG_FILE may hold: every subset of the keys, each
\* present key with one of two values.
ConfigDocs ==
    {[k \in K |-> full[k]] :
        K \in SUBSET ConfigKeys,
        full \in [cache_dir : {"None", "cacheA"},
                  model_id : {"Tongyi-MAI/Z-Image-Turbo", "other/model"},
                  cpu_offload : BOOLEAN]}

\* CONFIG_FILE at process start: no file, a file that is not JSON, a JSON
\* value that is not an object (null, a number, a list), or an object.
StartFiles ==
    {[state |-> st, doc |-> EmptyDict] : st \in {"absent", "corrupt", "other"}}
        \cup {[state |-> "ok", doc |-> d] : d \in ConfigDocs}

\* load_config, for a file json.load reads as a dict or fails on.
load_config(file) ==
    IF file.state = "ok"
    THEN file.doc
    ELSE [cache_dir |-> "None", model_id |-> "Tongyi-MAI/Z-Image-Turbo"]

\* if "cpu_offload" not in model_config: model_config["cpu_offload"] = False
WithCpuOffload(cfg) ==
    IF "cpu_offload" \in DOMAIN cfg
    THEN cfg
    ELSE [k \in DOMAIN cfg \cup {"cpu_offload"} |->
            IF k = "cpu_offload" THEN FALSE ELSE cfg[k]]

\* The notifications load_pipeline sends.
LoadingNote == [type |-> "info", persistent |-> FALSE]
DownloadNote == [type |-> "info", persistent |-> FALSE]
SuccessNote == [type |-> "success", persistent |-> TRUE]
ErrorNote == [type |-> "error", persistent |-> TRUE]

\* A dimension check that forgets the width.
DimsRejectedHeightOnly(h, w) == h % 16 # 0

\* The dimension check of handle_generate_image.
DimsRejected(h, w) == h % 16 # 0 \/ w % 16 # 0

\* The device placement load_pipeline chooses.
Placement(cpu_offload, hasCuda) ==
    IF cpu_offload /\ hasCuda THEN "offload" ELSE "full"

\* Settings requests that have returned success.
SettingsDone == Cardinality({s \in Sets : spc[s] = "done" /\ sstatus[s] = 200})

BcastPcs == {"b_start", "b_dl", "b_ok", "b_err"}
LoadPcs == BcastPcs \cup {"dir", "download", "construct", "place", "placing"}
LoadSteps == {"download", "construct", "place"}

NoPlacing == [obj |-> None, mode |-> "none"]

----------------------------------------------------------------------------
Init ==
    /\ pipe = None
    /\ model_config = DefaultConfig
    /\ config_file = [state |-> "absent", doc |-> DefaultConfig]
    /\ active_connections = <<>>
    /\ ws = [c \in Chans |-> "idle"]
    /\ modelDir \in {"absent", "complete"}
    /\ cuda \in BOOLEAN
    /\ ZImagePipeline \in BOOLEAN
    /\ boot = "up"
    /\ handles = <<>>
    /\ loop = Free
    /\ gpc = [r \in Gens |-> "idle"]
    /\ req = [r \in Gens |-> [height |-> 16, width |-> 16]]
    /\ bi = [r \in Gens |-> 0]
    /\ ret = [r \in Gens |-> None]
    /\ status = [r \in Gens |-> 0]
    /\ sent = [r \in Gens |-> <<>>]
    /\ tried = [r \in Gens |-> <<>>]
    /\ failed = [r \in Gens |-> {}]
    /\ startReg = [r \in Gens |-> <<>>]
    /\ placing = [r \in Gens |-> NoPlacing]
    /\ failedAt = [r \in Gens |-> "none"]
    /\ loadEpoch = [r \in Gens |-> 0]
    /\ spc = [s \in Sets |-> "idle"]
    /\ sreq = [s \in Sets |-> [cache_dir |-> "", cpu_offload |-> FALSE]]
    /\ sstatus = [s \in Sets |-> 0]
    /\ saved = [s \in Sets |-> FALSE]

\* The process before the module body has run, over every CONFIG_FILE.
InitStart ==
    /\ pipe = None
    /\ model_config = EmptyDict
    /\ config_file \in StartFiles
    /\ active_connections = <<>>
    /\ ws = [c \in Chans |-> "idle"]
    /\ modelDir \in {"absent", "complete"}
    /\ cuda \in BOOLEAN
    /\ ZImagePipeline \in BOOLEAN
    /\ boot = "starting"
    /\ handles = <<>>
    /\ loop = Free
    /\ gpc = [r \in Gens |-> "idle"]
    /\ req = [r \in Gens |-> [height |-> 16, width |-> 16]]
    /\ bi = [r \in Gens |-> 0]
    /\ ret = [r \in Gens |-> None]
    /\ status = [r \in Gens |-> 0]
    /\ sent = [r \in Gens |-> <<>>]
    /\ tried = [r \in Gens |-> <<>>]
    /\ failed = [r \in Gens |-> {}]
    /\ startReg = [r \in Gens |-> <<>>]
    /\ placing = [r \in Gens |-> NoPlacing]
    /\ failedAt = [r \in Gens |-> "none"]
    /\ loadEpoch = [r \in Gens |-> 0]
    /\ spc = [s \in Sets |-> "idle"]
    /\ sreq = [s \in Sets |-> [cache_dir |-> "", cpu_offload |-> FALSE]]
    /\ sstatus = [s \in Sets |-> 0]
    /\ saved = [s \in Sets |-> FALSE]

\* model_config = load_config(), then the cpu_offload default: on a value
\* that is not a dict the membership test or the item assignment raises
\* TypeError out of the module body.
StartProcess ==
    /\ boot = "starting"
    /\ IF config_file.state = "other"
       THEN /\ boot' = "raised"
            /\ UNCHANGED model_config
       ELSE /\ model_config' = WithCpuOffload(load_config(config_file))
            /\ boot' = "up"
    /\ UNCHANGED <<pipe, config_file, modelDir, handles, loop, cuda,
                   ZImagePipeline, wsVars, genVars, setVars>>

----------------------------------------------------------------------------
\* websocket_endpoint

\* manager.connect: accept, then append.  A failed accept raises out of the
\* endpoint before the channel is registered.
WsConnect(c) ==
    /\ loop = Free
    /\ ws[c] = "idle"
    /\ \A d \in Chans : d < c => ws[d] # "idle"
    /\ \E accepted \in BOOLEAN :
        IF accepted
        THEN /\ active_connections' = Append(active_connections, c)
             /\ ws' = [ws EXCEPT ![c] = "open"]
        ELSE /\ ws' = [ws EXCEPT ![c] = "closed"]
             /\ UNCHANGED active_connections
    /\ UNCHANGED <<pipe, model_config, config_file, modelDir, handles, loop,
                   envVars, genVars, setVars>>

\* ConnectionManager.disconnect
Disconnect(conns, c) == RemoveFirst(conns, c)

\* receive_text raises WebSocketDisconnect: manager.disconnect(websocket).
WsDisconnect(c) ==
    /\ loop = Free
    /\ ws[c] = "open"
    /\ active_connections' = Disconnect(active_connections, c)
    /\ ws' = [ws EXCEPT ![c] = "closed"]
    /\ UNCHANGED <<pipe, model_config, config_file, modelDir, handles, loop,
                   envVars, genVars, setVars>>

\* manager.disconnect(websocket) called for channel c wherever its endpoint
\* stands: the remove drops c from the registry, or raises ValueError, which
\* nothing in disconnect or in websocket_endpoint catches.
ManagerDisconnect(c) ==
    /\ loop = Free
    /\ ws[c] # "raised"
    /\ IF RemoveRaises(active_connections, c)
       THEN /\ ws' = [ws EXCEPT ![c] = "raised"]
            /\ UNCHANGED active_connections
       ELSE /\ active_connections' = Disconnect(active_connections, c)
            /\ ws' = [ws EXCEPT ![c] = "closed"]
    /\ UNCHANGED <<pipe, model_config, config_file, modelDir, handles, loop,
                   envVars, genVars, setVars>>

----------------------------------------------------------------------------
\* send_notification(...) -> manager.broadcast(notification): the for loop
\* starts a list iterator over active_connections at index 0.
StartBroadcast(r, note, pc) ==
    /\ gpc' = [gpc EXCEPT ![r] = pc]
    /\ bi' = [bi EXCEPT ![r] = 0]
    /\ sent' = [sent EXCEPT ![r] = Append(@, note)]
    /\ tried' = [tried EXCEPT ![r] = <<>>]
    /\ failed' = [failed EXCEPT ![r] = {}]
    /\ startReg' = [startReg EXCEPT ![r] = active_connections]

\* The request ends with an HTTP status.
Respond(r, code) ==
    /\ gpc' = [gpc EXCEPT ![r] = "done"]
    /\ status' = [status EXCEPT ![r] = code]
    /\ loop' = Free

\* handle_generate_image, up to the dimension check, for a request whose
\* height and width are drawn from D.
Validate(r, D) ==
    /\ loop = Free
    /\ gpc[r] = "idle"
    /\ \A q \in Gens : q < r => gpc[q] # "idle"
    /\ \E h \in D, w \in D :
        /\ req' = [req EXCEPT ![r] = [height |-> h, width |-> w]]
        /\ IF DimsRejected(h, w)
           THEN Respond(r, 400)
           ELSE /\ gpc' = [gpc EXCEPT ![r] = "get"]
                /\ loop' = {r}
                /\ UNCHANGED status
    /\ UNCHANGED <<pipe, model_config, config_file, modelDir, handles,
                   envVars, wsVars, bi, ret, sent, tried, failed, startReg, placing,
                   failedAt, loadEpoch, setVars>>

\* get_pipeline: return pipe if it is set, else enter load_pipeline, which
\* raises at once without the binding and otherwise sends the first
\* notification.
GetPipeline(r) ==
    /\ loop = {r}
    /\ gpc[r] = "get"
    /\ IF pipe # None
       THEN /\ ret' = [ret EXCEPT ![r] = pipe]
            /\ gpc' = [gpc EXCEPT ![r] = "infer"]
            /\ UNCHANGED <<loop, status, bi, sent, tried, failed, startReg, failedAt,
                           loadEpoch>>
       ELSE IF ~ZImagePipeline
       THEN /\ failedAt' = [failedAt EXCEPT ![r] = "binding"]
            /\ Respond(r, 500)
            /\ UNCHANGED <<ret, bi, sent, tried, failed, startReg, loadEpoch>>
       ELSE /\ StartBroadcast(r, LoadingNote, "b_start")
            /\ loadEpoch' = [loadEpoch EXCEPT ![r] = SettingsDone]
            /\ UNCHANGED <<loop, ret, status, failedAt>>
    /\ UNCHANGED <<pipe, model_config, config_file, modelDir, handles,
                   envVars, wsVars, req, placing, setVars>>

\* A broadcast that drops a channel from the registry when its send raises.
BroadcastSendPruning(r) ==
    /\ loop \in {Free, {r}}
    /\ gpc[r] \in BcastPcs
    /\ bi[r] < Len(active_connections)
    /\ tried' = [tried EXCEPT ![r] = Append(@, active_connections[bi[r] + 1])]
    /\ \E delivered \in BOOLEAN :
        IF delivered
        THEN /\ bi' = [bi EXCEPT ![r] = @ + 1]
             /\ UNCHANGED <<failed, active_connections>>
        ELSE /\ failed' = [failed EXCEPT ![r] =
                              @ \cup {active_connections[bi[r] + 1]}]
             /\ active_connections' =
                    RemoveFirst(active_connections, active_connections[bi[r] + 1])
             /\ UNCHANGED bi
    /\ loop' = Free
    /\ UNCHANGED <<pipe, model_config, config_file, modelDir, handles,
                   envVars, ws, gpc, req, ret, status, sent, startReg,
                   placing, failedAt, loadEpoch, setVars>>

\* One pass of the loop in ConnectionManager.broadcast: the iterator yields
\* the element at its index, send_json is awaited (it delivers or raises, and
\* the bare except swallows the raise), and the coroutine may be suspended.
BroadcastSend(r) ==
    /\ loop \in {Free, {r}}
    /\ gpc[r] \in BcastPcs
    /\ bi[r] < Len(active_connections)
    /\ tried' = [tried EXCEPT ![r] = Append(@, active_connections[bi[r] + 1])]
    /\ \E delivered \in BOOLEAN :
        failed' = [failed EXCEPT ![r] =
                     IF delivered THEN @
                     ELSE @ \cup {active_connections[bi[r] + 1]}]
    /\ bi' = [bi EXCEPT ![r] = @ + 1]
    /\ loop' = Free
    /\ UNCHANGED <<pipe, model_config, config_file, modelDir, handles,
                   envVars, wsVars, gpc, req, ret, status, sent, startReg,
                   placing, failedAt, loadEpoch, setVars>>

\* The iterator is exhausted: broadcast returns and the caller goes on.
EndBroadcast(r) ==
    /\ loop \in {Free, {r}}
    /\ gpc[r] \in BcastPcs
    /\ bi[r] >= Len(active_connections)
    /\ bi' = [bi EXCEPT ![r] = 0]
    /\ tried' = [tried EXCEPT ![r] = <<>>]
    /\ failed' = [failed EXCEPT ![r] = {}]
    /\ startReg' = [startReg EXCEPT ![r] = <<>>]
    /\ CASE gpc[r] = "b_start" ->
              /\ gpc' = [gpc EXCEPT ![r] = "dir"]
              /\ loop' = {r}
              /\ UNCHANGED <<ret, status>>
         [] gpc[r] = "b_dl" ->
              /\ gpc' = [gpc EXCEPT ![r] = "download"]
              /\ loop' = {r}
              /\ UNCHANGED <<ret, status>>
         [] gpc[r] = "b_ok" ->
              \* load_pipeline returns; get_pipeline returns the global pipe;
              \* handle_generate_image raises ValueError on None.
              /\ ret' = [ret EXCEPT ![r] = pipe]
              /\ IF pipe = None
                 THEN Respond(r, 500)
                 ELSE /\ gpc' = [gpc EXCEPT ![r] = "infer"]
                      /\ loop' = {r}
                      /\ UNCHANGED status
         [] gpc[r] = "b_err" ->
              \* raise e, caught by handle_generate_image
              /\ Respond(r, 500)
              /\ UNCHANGED ret
    /\ UNCHANGED <<pipe, model_config, config_file, modelDir, handles,
                   envVars, wsVars, req, sent, placing, failedAt, loadEpoch,
                   setVars>>

\* load_pipeline: model_subdir.exists()
CheckModelDir(r) ==
    /\ loop = {r}
    /\ gpc[r] = "dir"
    /\ IF modelDir = "absent"
       THEN StartBroadcast(r, DownloadNote, "b_dl")
       ELSE /\ gpc' = [gpc EXCEPT ![r] = "construct"]
            /\ UNCHANGED <<bi, sent, tried, failed, startReg>>
    /\ UNCHANGED <<pipe, model_config, config_file, modelDir, handles, loop,
                   envVars, wsVars, req, ret, status, placing, failedAt,
                   loadEpoch, setVars>>

\* download_model: snapshot_download fills the directory or raises, and the
\* raise leaves load_pipeline outside its try block.
DownloadModel(r) ==
    /\ loop = {r}
    /\ gpc[r] = "download"
    /\ \/ /\ modelDir' = "complete"
          /\ gpc' = [gpc EXCEPT ![r] = "construct"]
          /\ UNCHANGED <<loop, status, failedAt>>
       \/ /\ modelDir' \in (IF modelDir = "absent"
                            THEN {"absent", "partial"} ELSE {modelDir})
          /\ failedAt' = [failedAt EXCEPT ![r] = "download"]
          /\ Respond(r, 500)
    /\ UNCHANGED <<pipe, model_config, config_file, handles, envVars, wsVars,
                   req, bi, ret, sent, tried, failed, startReg, placing, loadEpoch,
                   setVars>>

\* A construction that writes the directory it loaded from into model_config.
ConstructRecording(r) ==
    /\ loop = {r}
    /\ gpc[r] = "construct"
    /\ \/ /\ handles' = Append(handles, [by |-> r, born |-> SettingsDone,
                                         placement |-> "none",
                                         flagAtDone |-> FALSE])
          /\ pipe' = Len(handles) + 1
          /\ model_config' = [model_config EXCEPT !.cache_dir = "models"]
          /\ gpc' = [gpc EXCEPT ![r] = "place"]
          /\ UNCHANGED <<bi, sent, tried, failed, startReg, failedAt>>
       \/ /\ failedAt' = [failedAt EXCEPT ![r] = "construct"]
          /\ StartBroadcast(r, ErrorNote, "b_err")
          /\ UNCHANGED <<pipe, handles, model_config>>
    /\ UNCHANGED <<config_file, modelDir, loop, envVars, wsVars,
                   req, ret, status, placing, loadEpoch, setVars>>

\* pipe = ZImagePipeline.from_pretrained(...), or the raise, caught by the
\* except block, which sends the error notification.
Construct(r) ==
    /\ loop = {r}
    /\ gpc[r] = "construct"
    /\ \/ /\ handles' = Append(handles, [by |-> r, born |-> SettingsDone,
                                         placement |-> "none",
                                         flagAtDone |-> FALSE])
          /\ pipe' = Len(handles) + 1
          /\ gpc' = [gpc EXCEPT ![r] = "place"]
          /\ UNCHANGED <<bi, sent, tried, failed, startReg, failedAt>>
       \/ /\ failedAt' = [failedAt EXCEPT ![r] = "construct"]
          /\ StartBroadcast(r, ErrorNote, "b_err")
          /\ UNCHANGED <<pipe, handles>>
    /\ UNCHANGED <<model_config, config_file, modelDir, loop, envVars, wsVars,
                   req, ret, status, placing, loadEpoch, setVars>>

\* The test of cpu_offload and the call of pipe.enable_model_cpu_offload or
\* pipe.to on the global pipe (an AttributeError when it is None by now).
BeginPlacement(r) ==
    /\ loop = {r}
    /\ gpc[r] = "place"
    /\ IF pipe = None
       THEN /\ failedAt' = [failedAt EXCEPT ![r] = "place"]
            /\ StartBroadcast(r, ErrorNote, "b_err")
            /\ UNCHANGED placing
       ELSE /\ placing' = [placing EXCEPT ![r] =
                  [obj |-> pipe,
                   mode |-> Placement(model_config.cpu_offload, cuda)]]
            /\ gpc' = [gpc EXCEPT ![r] = "placing"]
            /\ UNCHANGED <<bi, sent, tried, failed, startReg, failedAt>>
    /\ UNCHANGED <<pipe, model_config, config_file, modelDir, handles, loop,
                   envVars, wsVars, req, ret, status, loadEpoch, setVars>>

\* The placement call returns, and the success notification is sent, or it
\* raises, and the except block sends the error notification.
FinishPlacement(r) ==
    /\ loop = {r}
    /\ gpc[r] = "placing"
    /\ placing' = [placing EXCEPT ![r] = NoPlacing]
    /\ \/ /\ handles' = [handles EXCEPT ![placing[r].obj] =
                  [@ EXCEPT !.placement = placing[r].mode,
                            !.flagAtDone = model_config.cpu_offload]]
          /\ StartBroadcast(r, SuccessNote, "b_ok")
          /\ UNCHANGED failedAt
       \/ /\ failedAt' = [failedAt EXCEPT ![r] = "place"]
          /\ StartBroadcast(r, ErrorNote, "b_err")
          /\ UNCHANGED handles
    /\ UNCHANGED <<pipe, model_config, config_file, modelDir, loop, envVars,
                   wsVars, req, ret, status, loadEpoch, setVars>>

\* An inference handed to another thread and awaited: the event loop is given
\* up while pipeline(...) runs.
RunInferenceOffLoop(r) ==
    /\ gpc[r] = "infer"
    /\ \/ /\ loop = {r}
          /\ loop' = Free
          /\ UNCHANGED <<gpc, status>>
       \/ /\ loop # {r}
          /\ \E code \in {200, 500} :
                /\ gpc' = [gpc EXCEPT ![r] = "done"]
                /\ status' = [status EXCEPT ![r] = code]
          /\ UNCHANGED loop
    /\ UNCHANGED <<pipe, model_config, config_file, modelDir, handles,
                   envVars, wsVars, req, bi, ret, sent, tried, failed, startReg,
                   placing, failedAt, loadEpoch, setVars>>

\* An inference whose failure also drops the pipeline.
RunInferenceUnloading(r) ==
    /\ loop = {r}
    /\ gpc[r] = "infer"
    /\ \E code \in {200, 500} :
        /\ Respond(r, code)
        /\ pipe' = IF code = 500 THEN None ELSE pipe
    /\ UNCHANGED <<model_config, config_file, modelDir, handles,
                   envVars, wsVars, req, bi, ret, sent, tried, failed, startReg,
                   placing, failedAt, loadEpoch, setVars>>

\* pipeline(...) and the encoding of the image, or a raise from any of it,
\* caught by the except block of handle_generate_image.
RunInference(r) ==
    /\ loop = {r}
    /\ gpc[r] = "infer"
    /\ \E code \in {200, 500} : Respond(r, code)
    /\ UNCHANGED <<pipe, model_config, config_file, modelDir, handles,
                   envVars, wsVars, req, bi, ret, sent, tried, failed, startReg,
                   placing, failedAt, loadEpoch, setVars>>

----------------------------------------------------------------------------
\* handle_set_settings, on a worker thread

\* An unload that leaves the handle in place.
unload_pipeline_keeps(p) == p

\* unload_pipeline
unload_pipeline(p) == IF p # None THEN None ELSE p

\* os.makedirs for a non-empty cache_dir (it may raise: the handler answers
\* 500 and nothing is changed), then model_config["cache_dir"] = ...
SetCacheDir(s) ==
    /\ spc[s] = "idle"
    /\ \A t \in Sets : t < s => spc[t] # "idle"
    /\ \E d \in CacheDirs, o \in BOOLEAN, made \in BOOLEAN :
        /\ sreq' = [sreq EXCEPT ![s] = [cache_dir |-> d, cpu_offload |-> o]]
        /\ IF d # "" /\ ~made
           THEN /\ spc' = [spc EXCEPT ![s] = "done"]
                /\ sstatus' = [sstatus EXCEPT ![s] = 500]
                /\ UNCHANGED model_config
           ELSE /\ made
                /\ model_config' = [model_config EXCEPT !.cache_dir = d]
                /\ spc' = [spc EXCEPT ![s] = "set_offload"]
                /\ UNCHANGED sstatus
    /\ UNCHANGED <<pipe, config_file, modelDir, handles, loop, envVars,
                   wsVars, genVars, saved>>

\* model_config["cpu_offload"] = req.cpu_offload
SetCpuOffload(s) ==
    /\ spc[s] = "set_offload"
    /\ model_config' = [model_config EXCEPT !.cpu_offload = sreq[s].cpu_offload]
    /\ spc' = [spc EXCEPT ![s] = "save"]
    /\ UNCHANGED <<pipe, config_file, modelDir, handles, loop, envVars,
                   wsVars, genVars, sreq, sstatus, saved>>

\* A save_config whose failed write ends the request with a 500.
SaveConfigSurfacing(s) ==
    /\ spc[s] = "save"
    /\ \/ /\ config_file' = [state |-> "ok", doc |-> model_config]
          /\ saved' = [saved EXCEPT ![s] = TRUE]
          /\ spc' = [spc EXCEPT ![s] = "unload"]
          /\ UNCHANGED sstatus
       \/ /\ config_file' \in {config_file, [config_file EXCEPT !.state = "corrupt"]}
          /\ spc' = [spc EXCEPT ![s] = "done"]
          /\ sstatus' = [sstatus EXCEPT ![s] = 500]
          /\ UNCHANGED saved
    /\ UNCHANGED <<pipe, model_config, modelDir, handles, loop, envVars,
                   wsVars, genVars, sreq>>

\* save_config(model_config): the document is written, or the write raises
\* and the except block swallows it (the file untouched or cut short).
SaveConfig(s) ==
    /\ spc[s] = "save"
    /\ \/ /\ config_file' = [state |-> "ok", doc |-> model_config]
          /\ saved' = [saved EXCEPT ![s] = TRUE]
       \/ /\ config_file' \in {config_file, [config_file EXCEPT !.state = "corrupt"]}
          /\ UNCHANGED saved
    /\ spc' = [spc EXCEPT ![s] = "unload"]
    /\ UNCHANGED <<pipe, model_config, modelDir, handles, loop, envVars,
                   wsVars, genVars, sreq, sstatus>>

\* unload_pipeline(), then the success response.
UnloadAndReturn(s) ==
    /\ spc[s] = "unload"
    /\ pipe' = unload_pipeline(pipe)
    /\ spc' = [spc EXCEPT ![s] = "done"]
    /\ sstatus' = [sstatus EXCEPT ![s] = 200]
    /\ UNCHANGED <<model_config, config_file, modelDir, handles, loop,
                   envVars, wsVars, genVars, sreq, saved>>

----------------------------------------------------------------------------
\* What a generate request does after the dimension check.
GenerateStep(r) ==
    \/ GetPipeline(r)
    \/ BroadcastSend(r)
    \/ EndBroadcast(r)
    \/ CheckModelDir(r)
    \/ DownloadModel(r)
    \/ Construct(r)
    \/ BeginPlacement(r)
    \/ FinishPlacement(r)
    \/ RunInference(r)

SettingsStep(s) ==
    \/ SetCacheDir(s)
    \/ SetCpuOffload(s)
    \/ SaveConfig(s)
    \/ UnloadAndReturn(s)

Next ==
    \/ \E c \in 1..MaxChan : WsConnect(c) \/ WsDisconnect(c)
    \/ \E r \in 1..MaxGen : Validate(r, PlainDims) \/ GenerateStep(r)
    \/ \E s \in 1..MaxSet : SettingsStep(s)

Spec == Init /\ [][Next]_vars

\* The connection registry under more channels, one request loading.
NextHub ==
    \/ \E c \in 1..HubChan : WsConnect(c) \/ WsDisconnect(c)
    \/ \E r \in HubGens : Validate(r, PlainDims) \/ GenerateStep(r)

SpecHub == Init /\ [][NextHub]_vars

\* The steps of a generate request that wait for no client: all of them but
\* the completion of an awaited send_json.
LoadProgress(r) ==
    \/ GetPipeline(r)
    \/ EndBroadcast(r)
    \/ CheckModelDir(r)
    \/ DownloadModel(r)
    \/ Construct(r)
    \/ BeginPlacement(r)
    \/ FinishPlacement(r)
    \/ RunInference(r)

\* SpecHub with the event loop running every coroutine that can go on and
\* every blocking call of the load sequence returning or raising.  When, and
\* whether, a send_json completes is the client's doing: nothing is assumed.
SpecFair ==
    Init /\ [][NextHub]_vars /\ \A r \in HubGens : WF_vars(LoadProgress(r))

\* Settings requests on their worker threads, overlapping in every way.
NextPair ==
    \E s \in 1..PairSet : SettingsStep(s)

SpecPair == Init /\ [][NextPair]_vars

\* The start of the process.
NextStart == StartProcess

SpecStart == InitStart /\ [][NextStart]_vars

\* ConnectionManager.disconnect applied to every channel in every state of the
\* registry.
NextReg ==
    \E c \in 1..HubChan : WsConnect(c) \/ ManagerDisconnect(c)

SpecReg == Init /\ [][NextReg]_vars

\* Requests of every shape, with the settings left alone.
NextDims ==
    \/ \E c \in 1..MaxChan : WsConnect(c) \/ WsDisconnect(c)
    \/ \E r \in 1..MaxGen : Validate(r, Dims) \/ GenerateStep(r)

SpecDims == Init /\ [][NextDims]_vars

----------------------------------------------------------------------------
\* Properties

InLoad(r) == gpc[r] \in LoadPcs

ErrorNotes(r) ==
    {i \in 1..Len(sent[r]) : sent[r][i].type = "error" /\ sent[r][i].persistent}

PositiveMultiple(n) == n > 0 /\ n % 16 = 0

\* C1: requests that call get_pipeline concurrently while pipe is None run at
\* most one load sequence between them: no two requests are inside
\* load_pipeline at once, and without a settings update in between
\* from_pretrained constructs at most one handle.
C1_OneLoadForConcurrentRequests ==
    /\ \A r1, r2 \in Gens : r1 # r2 => ~(InLoad(r1) /\ InLoad(r2))
    /\ SettingsDone = 0 => Len(handles) <= 1

\* C2: a get_pipeline call that finds a handle whose load has completed and
\* returned finds one whose load began after every settings update that has
\* returned: an update that returned while that load was in progress has
\* forced a reload.
C2_UpdateDuringLoadForcesReload ==
    [][\A r \in Gens :
          (/\ gpc[r] = "get" /\ gpc'[r] = "infer"
           /\ handles[pipe].placement # "none"
           /\ ~InLoad(handles[pipe].by))
              => loadEpoch[handles[pipe].by] = SettingsDone]_vars

\* C3: the step in which a settings update returns success leaves pipe None,
\* and a get_pipeline call then runs load_pipeline (it enters the load
\* sequence, or fails at once without the binding); a call that returns a
\* handle without loading returns one constructed after every settings update
\* that has returned, never one that existed before.
C3_UpdateForcesFreshLoad ==
    [][/\ \A s \in Sets :
            (spc[s] = "unload" /\ spc'[s] = "done") => pipe' = None
       /\ \A r \in Gens :
            (gpc[r] = "get" /\ gpc'[r] # "get") =>
                IF pipe = None
                THEN \/ gpc'[r] = "b_start" /\ Len(sent'[r]) = 1
                     \/ ~ZImagePipeline /\ status'[r] = 500
                ELSE /\ ret'[r] = pipe
                     /\ handles[pipe].born = SettingsDone]_vars

\* C3 witness: a request was served by handle 1, a settings update returned,
\* and a later request's get_pipeline ran a load that constructed handle 2.
C3_Witness ==
    /\ SettingsDone = 1
    /\ \E r1, r2 \in Gens :
        /\ gpc[r1] = "done" /\ status[r1] = 200 /\ ret[r1] = 1
        /\ loadEpoch[r2] = 1 /\ ret[r2] = 2 /\ handles[2].born = 1

\* C4: after a load sequence has failed at download, construction or
\* placement (no other request having run) pipe is None, and no handle whose
\* placement never completed is returned by get_pipeline.
C4_FailedLoadLeavesAbsent ==
    /\ \A r \in Gens :
        (/\ gpc[r] = "done"
         /\ failedAt[r] \in LoadSteps
         /\ \A q \in Gens \ {r} : gpc[q] = "idle") => pipe = None
    /\ \A r \in Gens :
        ret[r] # None => handles[ret[r]].placement # "none"

\* C5: a request whose load sequence failed at download, construction or
\* placement answers 500 and its load sequence broadcast exactly one
\* persistent error notification.
C5_FailedLoadNotifiesOnce ==
    \A r \in Gens :
        (gpc[r] = "done" /\ failedAt[r] \in LoadSteps) =>
            /\ status[r] = 500
            /\ Cardinality(ErrorNotes(r)) = 1

\* C6: a handle get_pipeline returned, once placed, has the placement that
\* cpu_offload prescribed at the moment its placement completed.
C6_PlacementMatchesConfig ==
    \A r \in Gens :
        (ret[r] # None /\ handles[ret[r]].placement # "none") =>
            handles[ret[r]].placement =
                Placement(handles[ret[r]].flagAtDone, cuda)

\* C7: a request whose height or width is not divisible by 16 is answered 400
\* in the step that reads it, without a get_pipeline call, and pipe, the
\* handles, the Configuration, the registry and the notifications sent are
\* unchanged.
C7_IndivisibleRejectedUnchanged ==
    [][\A r \in Gens :
          (/\ gpc[r] = "idle" /\ gpc'[r] # "idle"
           /\ (req'[r].height % 16 # 0 \/ req'[r].width % 16 # 0))
          => /\ gpc'[r] = "done" /\ status'[r] = 400
             /\ ret'[r] = None
             /\ UNCHANGED <<pipe, handles, model_config, config_file,
                            active_connections, sent, tried>>]_vars

\* C7 witness: a request of height 16 and width 15 was answered 400.
C7_Witness ==
    \E r \in Gens :
        /\ gpc[r] = "done" /\ status[r] = 400
        /\ req[r] = [height |-> 16, width |-> 15]

\* C8: a request whose height or width is not a positive multiple of 16 is
\* answered 400 and never reaches get_pipeline.
C8_NonPositiveRejected ==
    \A r \in Gens :
        (/\ gpc[r] # "idle"
         /\ ~(PositiveMultiple(req[r].height) /\ PositiveMultiple(req[r].width)))
        => gpc[r] = "done" /\ status[r] = 400 /\ ret[r] = None

\* C9: the step in which inference raises (the request answers 500) leaves
\* pipe and the handles as they were and starts no load, and a get_pipeline
\* call that finds pipe set returns that handle without a load sequence.
C9_InferenceFailureKeepsReady ==
    [][/\ \A r \in Gens :
            (gpc[r] = "infer" /\ gpc'[r] = "done" /\ status'[r] = 500) =>
                /\ UNCHANGED <<pipe, handles, sent>>
                /\ \A q \in Gens : InLoad(q)' => InLoad(q)
       /\ \A q \in Gens :
            (gpc[q] = "get" /\ gpc'[q] # "get" /\ pipe # None) =>
                /\ ret'[q] = pipe /\ gpc'[q] = "infer"
                /\ UNCHANGED <<pipe, handles, sent>>]_vars

\* C9 witness: inference raised for a request holding handle 1, pipe is still
\* that handle, and the next request got it from get_pipeline with no load.
C9_Witness ==
    \E r, q \in Gens :
        /\ gpc[r] = "done" /\ status[r] = 500 /\ failedAt[r] = "none"
        /\ ret[r] = 1 /\ pipe = 1
        /\ gpc[q] = "infer" /\ ret[q] = 1 /\ sent[q] = <<>>

\* C10: a send that raises leaves the registry as it was and the broadcast
\* running at the next element, and fails nothing; a broadcast that ends with
\* the registry as it was when it began has sent to every registered channel,
\* whichever sends raised;
\* a channel leaves the registry only in its endpoint's disconnect.
C10_SendFailureIsolated ==
    [][/\ \A r \in Gens :
            failed'[r] \ failed[r] # {} =>
                /\ active_connections' = active_connections
                /\ gpc'[r] = gpc[r] /\ bi'[r] = bi[r] + 1
                /\ status' = status /\ failedAt' = failedAt
       /\ \A r \in Gens :
            (gpc[r] \in BcastPcs /\ gpc'[r] # gpc[r]
             /\ startReg[r] = active_connections) =>
                Range(active_connections) \subseteq Range(tried[r])
       /\ \A c \in Chans :
            (c \in Range(active_connections)
             /\ c \notin Range(active_connections')) =>
                ws[c] = "open" /\ ws'[c] = "closed"]_vars

\* C10 witness: a broadcast whose send to the first channel raised has
\* delivered to the second, with both still registered.
C10_Witness ==
    \E r \in Gens :
        /\ gpc[r] \in BcastPcs
        /\ Len(tried[r]) = 2 /\ tried[r] = active_connections
        /\ tried[r][1] \in failed[r] /\ tried[r][2] \notin failed[r]

\* C11: no call of ConnectionManager.disconnect raises: one for a channel that
\* is not, or no longer, in the registry completes as one for a registered
\* channel does.
C11_DisconnectIdempotent ==
    \A c \in Chans : ws[c] # "raised"

\* C12: a load sequence that get_pipeline started ends, with the handle
\* returned or with a failure, whatever the sends of its broadcasts do, a send
\* that never completes included.
C12_LoadEndsWhateverSendsDo ==
    \A r \in HubGens : InLoad(r) ~> ~InLoad(r)

\* Settings requests that have returned success.
Returned == {s \in Sets : spc[s] = "done" /\ sstatus[s] = 200}

\* C13: once two or more settings requests have returned success and none is
\* running, cache_dir and cpu_offload of model_config are the two values of one
\* of those requests, and pipe is None.
C13_OverlappingUpdatesSerialized ==
    (/\ Cardinality(Returned) >= 2
     /\ \A s \in Sets : spc[s] \in {"idle", "done"}) =>
        /\ \E s \in Returned :
              /\ model_config.cache_dir = sreq[s].cache_dir
              /\ model_config.cpu_offload = sreq[s].cpu_offload
        /\ pipe = None

\* C14: a save_config whose write failed ends no request and changes neither
\* model_config nor pipe; the request goes on to return success with pipe
\* None, and, when no other settings request has started, with cache_dir and
\* cpu_offload of model_config as requested.
C14_SaveFailureNotSurfaced ==
    [][\A s \in Sets :
          /\ (spc[s] = "save" /\ spc'[s] # "save" /\ ~saved'[s]) =>
                /\ spc'[s] = "unload" /\ sstatus'[s] = 0
                /\ UNCHANGED <<model_config, pipe>>
          /\ (spc[s] = "unload" /\ spc'[s] # "unload" /\ ~saved[s]) =>
                /\ spc'[s] = "done" /\ sstatus'[s] = 200
                /\ pipe' = None
                /\ (\A u \in Sets \ {s} : spc[u] = "idle") =>
                      /\ model_config'.cache_dir = sreq[s].cache_dir
                      /\ model_config'.cpu_offload = sreq[s].cpu_offload]_vars

\* C14 witness: handle 1 had served a request; a settings request for
\* "cacheA" with cpu_offload on, whose save_config left the document
\* unwritten, has returned success, model_config holds both values and pipe
\* is None.
C14_Witness ==
    \E s \in Sets, r \in Gens :
        /\ gpc[r] = "done" /\ status[r] = 200 /\ ret[r] = 1
        /\ spc[s] = "done" /\ sstatus[s] = 200 /\ ~saved[s]
        /\ config_file.state # "ok"
        /\ sreq[s] = [cache_dir |-> "cacheA", cpu_offload |-> TRUE]
        /\ model_config.cache_dir = "cacheA" /\ model_config.cpu_offload
        /\ pipe = None /\ Len(handles) = 1

\* What the Configuration is to be after a start from the file: the value of
\* the file's object for every key it has, the default for every other key.
StartExpected(file) ==
    [k \in ConfigKeys |->
        IF file.state = "ok" /\ k \in DOMAIN file.doc
        THEN file.doc[k] ELSE DefaultConfig[k]]

\* C15: once the module body has run model_config has the three keys, each
\* with the value CONFIG_FILE held for it or else with its default.
C15_StartAppliesDefaults ==
    boot = "up" =>
        /\ DOMAIN model_config = ConfigKeys
        /\ \A k \in ConfigKeys : model_config[k] = StartExpected(config_file)[k]

\* C16: a failed fetch ends its request with a failure, and a load sequence
\* whose directory check finds the directory absent or partly written starts
\* the fetch: from_pretrained is reached only over a completed fetch.
C16_PartialDirectoryRefetched ==
    [][\A r \in Gens :
          /\ (gpc[r] = "download" /\ gpc'[r] # "download"
              /\ modelDir' # "complete") =>
                gpc'[r] = "done" /\ status'[r] = 500
          /\ (gpc[r] = "dir" /\ gpc'[r] # "dir" /\ modelDir # "complete") =>
                gpc'[r] = "b_dl"]_vars

\* C17: no two requests are at once between the return of get_pipeline and
\* their response, where pipeline(...) runs; the one that is there owns the
\* event loop.
C17_OneInferenceAtATime ==
    \A r1, r2 \in Gens :
        gpc[r1] = "infer" =>
            /\ loop = {r1}
            /\ gpc[r2] = "infer" => r1 = r2

\* C17 witness: a request runs its inference on the handle while another
\* request, which loaded that handle, is suspended in its success broadcast.
C17_Witness ==
    \E r1, r2 \in Gens :
        /\ r1 # r2
        /\ gpc[r1] = "infer" /\ ret[r1] = pipe
        /\ gpc[r2] = "b_ok" /\ handles[pipe].by = r2

\* How many times x occurs in the list s.
Count(s, x) == Cardinality({i \in 1..Len(s) : s[i] = x})

\* C18: a broadcast that ends has sent exactly once to every channel that was
\* registered when it began and is registered still, whatever connected or
\* disconnected while it was suspended.
C18_StableChannelSentOnce ==
    [][\A r \in Gens :
          (gpc[r] \in BcastPcs /\ gpc'[r] # gpc[r]) =>
              \A c \in Range(startReg[r]) \cap Range(active_connections) :
                  Count(tried[r], c) = 1]_vars

\* C19: model_config changes only in the two assignments of a settings
\* request, the first changing at most cache_dir and the second at most
\* cpu_offload; every step of a generate request, of its load sequence, of a
\* WebSocket endpoint and the unload leave it as it was, and model_id never
\* changes.
C19_ConfigChangedOnlyBySettings ==
    [][/\ model_config' # model_config =>
            \E s \in Sets :
                \/ /\ spc[s] = "idle" /\ spc'[s] = "set_offload"
                   /\ model_config' =
                          [model_config EXCEPT !.cache_dir = sreq'[s].cache_dir]
                \/ /\ spc[s] = "set_offload" /\ spc'[s] = "save"
                   /\ model_config' =
                          [model_config EXCEPT !.cpu_offload = sreq[s].cpu_offload]
       /\ (gpc' # gpc \/ ws' # ws \/ pipe' # pipe) => model_config' = model_config
       /\ model_config'.model_id = model_config.model_id]_vars

\* C19 witness: after a generate request served by a load, a WebSocket
\* connection and a settings update, model_config differs from its first
\* value in cache_dir and cpu_offload and has the model_id it had.
C19_Witness ==
    /\ \E r \in Gens : gpc[r] = "done" /\ status[r] = 200 /\ sent[r] # <<>>
    /\ \E c \in Chans : ws[c] = "open"
    /\ \E s \in Sets : spc[s] = "done" /\ sstatus[s] = 200 /\ saved[s]
    /\ model_config = [cache_dir |-> "cacheA",
                       model_id |-> DefaultConfig.model_id,
                       cpu_offload |-> TRUE]
    /\ config_file = [state |-> "ok", doc |-> model_config]

\* C20: a load sequence past its first broadcast has sent the loading
\* notification first, before any download or construction.
LoadingNoteFirst(r) ==
    gpc[r] \in LoadPcs \ {"b_start"} =>
        /\ sent[r] # <<>> /\ sent[r][1] = LoadingNote
        /\ gpc[r] \in {"dir", "b_dl"} => \A i \in 1..Len(handles) : handles[i].by # r

\* C20: the step that sends the success notification of a load sequence
\* leaves pipe set, to the handle that sequence constructed, with its placement
\* completed.
SuccessOnlyWhileReady(r) ==
    (Len(sent'[r]) = Len(sent[r]) + 1 /\ sent'[r][Len(sent'[r])] = SuccessNote) =>
        /\ pipe' # None
        /\ handles'[pipe'].by = r
        /\ handles'[pipe'].placement # "none"

\* C20: no load sequence has sent both a success and an error notification.
NotSuccessAndError(r) ==
    ~(SuccessNote \in Range(sent[r]) /\ ErrorNote \in Range(sent[r]))

\* C20: the notifications of every load sequence are ordered: loading
\* first, success only once the handle is constructed and placed and while
\* pipe is set, never success and error both.
C20_NotificationsOrdered ==
    [][\A r \in Gens :
          /\ LoadingNoteFirst(r)'
          /\ SuccessOnlyWhileReady(r)
          /\ NotSuccessAndError(r)']_vars

====
